---- MODULE Spec2Model ----
(***************************************************************************)
(* Offer/response workflow of the TMS backend: load tendering to carriers  *)
(* (TenderingService) and dispatch to drivers (DispatchService).           *)
(*                                                                         *)
(* Every public operation opens a transaction, READS through the injected  *)
(* repositories (plain findOne on the pool connection: no lock, committed  *)
(* data), then WRITES through queryRunner.manager and commits.  A request  *)
(* is therefore two steps here: <Op>Begin takes the reads and the checks   *)
(* that can throw, <Op>Commit applies every write of the transaction at    *)
(* once.  Several requests (Procs) are in flight at a time.  A request     *)
(* whose checks throw writes nothing (rollback) and is a stuttering step.  *)
(***************************************************************************)
EXTENDS Integers, Sequences, FiniteSets, TLC

\* ---- bounds of the model ------------------------------------------------
MaxRequests == 5

Procs == {"p1", "p2"}
Shipments == {"s1", "s2"}
Carriers == {"c1", "c2"}
Drivers == {"d1", "d2"}
Tenants == {"tA", "tB"}
NULL == "null"

\* tenant that owns each shipment (ShipmentEntity.tenantId, never rewritten
\* by the workflow)
ShipmentTenant(s) == IF s = "s1" THEN "tA" ELSE "tB"

\* ---- enums ----------------------------------------------------------------
TenderStatus == {"OFFERED", "ACCEPTED", "REJECTED", "EXPIRED", "CANCELLED", "WITHDRAWN"}
DispatchStatus == {"DISPATCHED", "CONFIRMED", "REJECTED", "COMPLETED", "CANCELLED"}
ShipmentStatus == {"QUOTE", "TENDERED", "BOOKED", "IN_TRANSIT", "DELIVERED", "CANCELLED"}
DriverStatus == {"ACTIVE", "INACTIVE", "ON_LOAD", "OFF_DUTY", "SICK", "VACATION"}

VARIABLES
    loadTenders,          \* table load_tenders: sequence of rows, id = index
    dispatchAssignments,  \* table dispatch_assignments: sequence of rows
    shipments,            \* table shipments: id -> row
    carriers,             \* table carriers: id -> row
    drivers,              \* table drivers: id -> row
    requests,             \* number of requests begun so far (bounds a run)
    pc                    \* per request handler: the operation in flight with
                          \* its arguments and the rows it has read

vars == <<loadTenders, dispatchAssignments, shipments, carriers, drivers, requests, pc>>

Idle == [op |-> "idle"]

TenderIds == 1..Len(loadTenders)
AssignmentIds == 1..Len(dispatchAssignments)

Init ==
    /\ loadTenders = << >>
    /\ dispatchAssignments = << >>
    /\ shipments = [s \in Shipments |->
                      [status |-> "QUOTE", carrierId |-> NULL, assignedDriverId |-> NULL]]
    /\ carriers \in [Carriers -> [status : {"ACTIVE", "INACTIVE"}]]
    /\ drivers = [d \in Drivers |->
                    [status |-> "ACTIVE", isActive |-> TRUE, completedLoads |-> 0,
                     licenseExpired |-> FALSE, medicalExpired |-> FALSE]]
    /\ pc = [p \in Procs |-> Idle]
    /\ requests = 0

\* ==========================================================================
\* TenderingService
\* ==========================================================================

\* variant of validateShipmentForTender that accepts any status
validateShipmentForTenderAnyStatus(shipmentId, tenant) ==
    ShipmentTenant(shipmentId) = tenant

\* validateShipmentForTender: found in the user's tenant and in QUOTE
validateShipmentForTender(shipmentId, tenant) ==
    /\ ShipmentTenant(shipmentId) = tenant
    /\ shipments[shipmentId].status = "QUOTE"

\* validateCarrierForTender: carrier exists and is ACTIVE
validateCarrierForTender(carrierId) ==
    carriers[carrierId].status = "ACTIVE"

\* the duplicate check of tenderLoad: an OFFERED tender for the same pair
existingTender(shipmentId, carrierId) ==
    \E t \in TenderIds :
        /\ loadTenders[t].shipmentId = shipmentId
        /\ loadTenders[t].carrierId = carrierId
        /\ loadTenders[t].status = "OFFERED"

\* all the checks of tenderLoad that can throw before its writes
TenderLoadValid(shipmentId, carrierId, tenant) ==
    /\ validateShipmentForTender(shipmentId, tenant)
    /\ validateCarrierForTender(carrierId)
    /\ ~existingTender(shipmentId, carrierId)

TenderLoadBegin(p, shipmentId, carrierId, tenant) ==
    /\ pc[p] = Idle
    /\ requests < MaxRequests
    /\ requests' = requests + 1
    /\ TenderLoadValid(shipmentId, carrierId, tenant)
    /\ pc' = [pc EXCEPT ![p] = [op |-> "tenderLoad", shipmentId |-> shipmentId,
                                 carrierId |-> carrierId]]
    /\ UNCHANGED <<loadTenders, dispatchAssignments, shipments, carriers, drivers>>

TenderLoadCommit(p) ==
    /\ pc[p].op = "tenderLoad"
    /\ shipments' = [shipments EXCEPT ![pc[p].shipmentId] =
                        [@ EXCEPT !.status = "TENDERED", !.carrierId = pc[p].carrierId]]
    /\ loadTenders' = Append(loadTenders,
                        [shipmentId |-> pc[p].shipmentId, carrierId |-> pc[p].carrierId,
                         status |-> "OFFERED", expired |-> FALSE,
                         auditTrail |-> <<"OFFERED">>])
    /\ pc' = [pc EXCEPT ![p] = Idle]
    /\ UNCHANGED <<dispatchAssignments, carriers, drivers, requests>>

\* findTenderForResponse: the tender with this id AND this carrier
findTenderForResponse(tenderId, carrierId) ==
    /\ tenderId \in TenderIds
    /\ loadTenders[tenderId].carrierId = carrierId

\* variant of the checks that does not look at offerExpiryDate
AcceptTenderValidIgnoringExpiry(tenderId, carrierId) ==
    /\ findTenderForResponse(tenderId, carrierId)
    /\ loadTenders[tenderId].status = "OFFERED"

\* variant of the checks that also wants the carrier to be ACTIVE
AcceptTenderValidForActiveCarrier(tenderId, carrierId) ==
    /\ findTenderForResponse(tenderId, carrierId)
    /\ loadTenders[tenderId].status = "OFFERED"
    /\ ~loadTenders[tenderId].expired
    /\ carriers[carrierId].status = "ACTIVE"

\* the checks of acceptTender: found, OFFERED, not past offerExpiryDate
AcceptTenderValid(tenderId, carrierId) ==
    /\ findTenderForResponse(tenderId, carrierId)
    /\ loadTenders[tenderId].status = "OFFERED"
    /\ ~loadTenders[tenderId].expired

\* rejectOtherTenders: UPDATE load_tenders SET status = CANCELLED,
\* auditTrail = [AUTO_CANCELLED] WHERE shipmentId = .. AND status = OFFERED
rejectOtherTenders(tenders, shipmentId) ==
    [t \in 1..Len(tenders) |->
        IF tenders[t].shipmentId = shipmentId /\ tenders[t].status = "OFFERED"
        THEN [tenders[t] EXCEPT !.status = "CANCELLED",
                                !.auditTrail = <<"AUTO_CANCELLED">>]
        ELSE tenders[t]]

AcceptTenderBegin(p, tenderId, carrierId) ==
    /\ pc[p] = Idle
    /\ requests < MaxRequests
    /\ requests' = requests + 1
    /\ AcceptTenderValid(tenderId, carrierId)
    /\ pc' = [pc EXCEPT ![p] = [op |-> "acceptTender", tenderId |-> tenderId,
                                 tender |-> loadTenders[tenderId]]]
    /\ UNCHANGED <<loadTenders, dispatchAssignments, shipments, carriers, drivers>>

\* the tender row after acceptTender's update by id
AcceptedRow(row, read) ==
    [row EXCEPT !.status = "ACCEPTED",
                !.auditTrail = Append(read.auditTrail, "ACCEPTED")]

\* a slip of acceptTender: the shipment gets the carrier but not the status
bookShipmentCarrierOnly(ships, tender) ==
    [ships EXCEPT ![tender.shipmentId] = [@ EXCEPT !.carrierId = tender.carrierId]]

\* acceptTender's shipment update: status BOOKED, carrierId of the tender
bookShipment(ships, tender) ==
    [ships EXCEPT ![tender.shipmentId] =
        [@ EXCEPT !.status = "BOOKED", !.carrierId = tender.carrierId]]

AcceptTenderCommit(p) ==
    /\ pc[p].op = "acceptTender"
    /\ LET id == pc[p].tenderId
           tender == pc[p].tender
           updated == [loadTenders EXCEPT ![id] = AcceptedRow(@, tender)]
       IN /\ loadTenders' = rejectOtherTenders(updated, tender.shipmentId)
          /\ shipments' = bookShipment(shipments, tender)
    /\ pc' = [pc EXCEPT ![p] = Idle]
    /\ UNCHANGED <<dispatchAssignments, carriers, drivers, requests>>

\* the checks of rejectTender: found and OFFERED (expiry is not looked at)
RejectTenderValid(tenderId, carrierId) ==
    /\ findTenderForResponse(tenderId, carrierId)
    /\ loadTenders[tenderId].status = "OFFERED"

RejectTenderBegin(p, tenderId, carrierId) ==
    /\ pc[p] = Idle
    /\ requests < MaxRequests
    /\ requests' = requests + 1
    /\ RejectTenderValid(tenderId, carrierId)
    /\ pc' = [pc EXCEPT ![p] = [op |-> "rejectTender", tenderId |-> tenderId,
                                 tender |-> loadTenders[tenderId]]]
    /\ UNCHANGED <<loadTenders, dispatchAssignments, shipments, carriers, drivers>>

RejectTenderCommit(p) ==
    /\ pc[p].op = "rejectTender"
    /\ loadTenders' = [loadTenders EXCEPT ![pc[p].tenderId] =
                          [@ EXCEPT !.status = "REJECTED",
                                    !.auditTrail = Append(pc[p].tender.auditTrail, "REJECTED")]]
    /\ pc' = [pc EXCEPT ![p] = Idle]
    /\ UNCHANGED <<dispatchAssignments, shipments, carriers, drivers, requests>>

\* the checks of cancelTender: found (by id alone), not CANCELLED or EXPIRED
CancelTenderValid(tenderId) ==
    /\ tenderId \in TenderIds
    /\ loadTenders[tenderId].status \notin {"CANCELLED", "EXPIRED"}

CancelTenderBegin(p, tenderId) ==
    /\ pc[p] = Idle
    /\ requests < MaxRequests
    /\ requests' = requests + 1
    /\ CancelTenderValid(tenderId)
    /\ pc' = [pc EXCEPT ![p] = [op |-> "cancelTender", tenderId |-> tenderId,
                                 tender |-> loadTenders[tenderId]]]
    /\ UNCHANGED <<loadTenders, dispatchAssignments, shipments, carriers, drivers>>

CancelTenderCommit(p) ==
    /\ pc[p].op = "cancelTender"
    /\ LET tender == pc[p].tender
       IN /\ shipments' = IF tender.status = "ACCEPTED"
                          THEN [shipments EXCEPT ![tender.shipmentId] =
                                   [@ EXCEPT !.status = "QUOTE", !.carrierId = NULL]]
                          ELSE shipments
          /\ loadTenders' = [loadTenders EXCEPT ![pc[p].tenderId] =
                                [@ EXCEPT !.status = "CANCELLED",
                                          !.auditTrail = Append(tender.auditTrail, "CANCELLED")]]
    /\ pc' = [pc EXCEPT ![p] = Idle]
    /\ UNCHANGED <<dispatchAssignments, carriers, drivers, requests>>

\* the clock passes a tender's offerExpiryDate (read only by acceptTender,
\* and only after its status check, so it matters for OFFERED tenders alone)
ExpiryPasses(tenderId) ==
    /\ tenderId \in TenderIds
    /\ loadTenders[tenderId].status = "OFFERED"
    /\ ~loadTenders[tenderId].expired
    /\ loadTenders' = [loadTenders EXCEPT ![tenderId] = [@ EXCEPT !.expired = TRUE]]
    /\ UNCHANGED <<dispatchAssignments, shipments, carriers, drivers, pc, requests>>

\* ==========================================================================
\* DispatchService
\* ==========================================================================

\* validateShipmentForDispatch: found in the user's tenant, BOOKED or
\* TENDERED, and one of its tenders is ACCEPTED
validateShipmentForDispatch(shipmentId, tenant) ==
    /\ ShipmentTenant(shipmentId) = tenant
    /\ shipments[shipmentId].status \in {"BOOKED", "TENDERED"}
    /\ \E t \in TenderIds : /\ loadTenders[t].shipmentId = shipmentId
                            /\ loadTenders[t].status = "ACCEPTED"

\* validateDriverForAssignment: driver exists and isActive
validateDriverForAssignment(driverId) ==
    drivers[driverId].isActive

\* variant of isDriverAvailable that looks at the status only
isDriverAvailableStatusOnly(driver) ==
    driver.status \in {"ACTIVE", "OFF_DUTY"}

\* isDriverAvailable: status ACTIVE or OFF_DUTY, licence and medical
\* certificate not past their expiration dates
isDriverAvailable(driver) ==
    /\ driver.status \in {"ACTIVE", "OFF_DUTY"}
    /\ ~driver.licenseExpired
    /\ ~driver.medicalExpired

\* the duplicate check of assignDriver: a DISPATCHED or CONFIRMED
\* assignment of this driver to this shipment
existingAssignment(shipmentId, driverId) ==
    \E a \in AssignmentIds :
        /\ dispatchAssignments[a].shipmentId = shipmentId
        /\ dispatchAssignments[a].driverId = driverId
        /\ dispatchAssignments[a].status \in {"DISPATCHED", "CONFIRMED"}

AssignDriverValid(shipmentId, driverId, tenant) ==
    /\ validateShipmentForDispatch(shipmentId, tenant)
    /\ validateDriverForAssignment(driverId)
    /\ isDriverAvailable(drivers[driverId])
    /\ ~existingAssignment(shipmentId, driverId)

AssignDriverBegin(p, shipmentId, driverId, tenant) ==
    /\ pc[p] = Idle
    /\ requests < MaxRequests
    /\ requests' = requests + 1
    /\ AssignDriverValid(shipmentId, driverId, tenant)
    /\ pc' = [pc EXCEPT ![p] = [op |-> "assignDriver", shipmentId |-> shipmentId,
                                 driverId |-> driverId, tenantId |-> tenant,
                                 driver |-> drivers[driverId]]]
    /\ UNCHANGED <<loadTenders, dispatchAssignments, shipments, carriers, drivers>>

\* the status assignDriver writes to the shipment.  The code writes
\* ShipmentStatus.DISPATCHED, which the ShipmentStatus enum does not define:
\* the column either keeps its value (the undefined member is left out of
\* the UPDATE) or takes the literal the code names.
AssignDriverShipmentStatus(old) == {old, "DISPATCHED"}

\* the writes of assignDriver's transaction: the assignment row, the
\* shipment (status, assignedDriverId) and the driver (ON_LOAD, completedLoads)
AssignDriverWrites(p) ==
    /\ dispatchAssignments' = Append(dispatchAssignments,
                                [shipmentId |-> pc[p].shipmentId,
                                 driverId |-> pc[p].driverId,
                                 tenantId |-> pc[p].tenantId,
                                 status |-> "DISPATCHED"])
    /\ \E st \in AssignDriverShipmentStatus(shipments[pc[p].shipmentId].status) :
          shipments' = [shipments EXCEPT ![pc[p].shipmentId] =
                           [@ EXCEPT !.status = st,
                                     !.assignedDriverId = pc[p].driverId]]
    /\ drivers' = [drivers EXCEPT ![pc[p].driverId] =
                      [@ EXCEPT !.status = "ON_LOAD",
                                !.completedLoads = pc[p].driver.completedLoads + 1]]

AssignDriverCommit(p) ==
    /\ pc[p].op = "assignDriver"
    /\ AssignDriverWrites(p)
    /\ pc' = [pc EXCEPT ![p] = Idle]
    /\ UNCHANGED <<loadTenders, carriers, requests>>

\* variant of the checks that takes an assignment in any status
ProcessDriverResponseValidAnyStatus(driverId, assignmentId) ==
    /\ assignmentId \in AssignmentIds
    /\ dispatchAssignments[assignmentId].driverId = driverId

\* the checks of processDriverResponse: the assignment with this id AND this
\* driver exists and is DISPATCHED
ProcessDriverResponseValid(driverId, assignmentId) ==
    /\ assignmentId \in AssignmentIds
    /\ dispatchAssignments[assignmentId].driverId = driverId
    /\ dispatchAssignments[assignmentId].status = "DISPATCHED"

ProcessDriverResponseBegin(p, driverId, response, assignmentId) ==
    /\ pc[p] = Idle
    /\ requests < MaxRequests
    /\ requests' = requests + 1
    /\ ProcessDriverResponseValid(driverId, assignmentId)
    /\ pc' = [pc EXCEPT ![p] = [op |-> "processDriverResponse",
                                 driverId |-> driverId, response |-> response,
                                 assignmentId |-> assignmentId,
                                 assignment |-> dispatchAssignments[assignmentId],
                                 driver |-> drivers[dispatchAssignments[assignmentId].driverId]]]
    /\ UNCHANGED <<loadTenders, dispatchAssignments, shipments, carriers, drivers>>

\* a slip of processDriverResponse: the confirmation skips a stage
ConfirmedShipmentStatusInTransit == "IN_TRANSIT"

\* the shipment status written when the driver confirms
ConfirmedShipmentStatus == "BOOKED"

\* a slip of processDriverResponse: a confirmation cancels the sibling
\* DISPATCHED assignments of the shipment, as acceptTender does for tenders
updateAssignmentCascade(assignments, assignmentId, status) ==
    [a \in 1..Len(assignments) |->
        IF a = assignmentId
        THEN [assignments[a] EXCEPT !.status = status]
        ELSE IF /\ status = "CONFIRMED"
                /\ assignments[a].shipmentId = assignments[assignmentId].shipmentId
                /\ assignments[a].status = "DISPATCHED"
             THEN [assignments[a] EXCEPT !.status = "CANCELLED"]
             ELSE assignments[a]]

\* processDriverResponse's update of the assignment, by id
updateAssignment(assignments, assignmentId, status) ==
    [assignments EXCEPT ![assignmentId] = [@ EXCEPT !.status = status]]

\* the assignment status written for a response
newStatus(response) == IF response = "1" THEN "CONFIRMED" ELSE "REJECTED"

\* variant of the revert that leaves the rejecting driver on the shipment
revertShipmentKeepDriver(ships, shipmentId) ==
    [ships EXCEPT ![shipmentId] = [@ EXCEPT !.status = "TENDERED"]]

\* a rejected dispatch reverts the shipment to TENDERED for re-dispatch
revertShipment(ships, shipmentId) ==
    [ships EXCEPT ![shipmentId] = [@ EXCEPT !.status = "TENDERED",
                                            !.assignedDriverId = NULL]]

ProcessDriverResponseCommit(p) ==
    /\ pc[p].op = "processDriverResponse"
    /\ LET assignment == pc[p].assignment
       IN /\ IF pc[p].response = "1"
             THEN /\ drivers' = [drivers EXCEPT ![pc[p].driverId] =
                                    [@ EXCEPT !.status = "ON_LOAD",
                                              !.completedLoads = pc[p].driver.completedLoads + 1]]
                  /\ shipments' = [shipments EXCEPT ![assignment.shipmentId] =
                                      [@ EXCEPT !.status = ConfirmedShipmentStatus]]
             ELSE /\ drivers' = [drivers EXCEPT ![pc[p].driverId] =
                                    [@ EXCEPT !.status = "ACTIVE"]]
                  /\ shipments' = revertShipment(shipments, assignment.shipmentId)
          /\ dispatchAssignments' = updateAssignment(dispatchAssignments,
                                        pc[p].assignmentId, newStatus(pc[p].response))
    /\ pc' = [pc EXCEPT ![p] = Idle]
    /\ UNCHANGED <<loadTenders, carriers, requests>>

Next ==
    \/ \E p \in Procs, s \in Shipments, c \in Carriers, u \in Tenants :
          TenderLoadBegin(p, s, c, u)
    \/ \E p \in Procs : TenderLoadCommit(p)
    \/ \E p \in Procs, t \in TenderIds, c \in Carriers : AcceptTenderBegin(p, t, c)
    \/ \E p \in Procs : AcceptTenderCommit(p)
    \/ \E p \in Procs, t \in TenderIds, c \in Carriers : RejectTenderBegin(p, t, c)
    \/ \E p \in Procs : RejectTenderCommit(p)
    \/ \E p \in Procs, t \in TenderIds : CancelTenderBegin(p, t)
    \/ \E p \in Procs : CancelTenderCommit(p)
    \/ \E t \in TenderIds : ExpiryPasses(t)
    \/ \E p \in Procs, s \in Shipments, d \in Drivers, u \in Tenants :
          AssignDriverBegin(p, s, d, u)
    \/ \E p \in Procs : AssignDriverCommit(p)
    \/ \E p \in Procs, d \in Drivers, r \in {"1", "2"}, a \in AssignmentIds :
          ProcessDriverResponseBegin(p, d, r, a)
    \/ \E p \in Procs : ProcessDriverResponseCommit(p)

Spec == Init /\ [][Next]_vars

\* ==========================================================================
\* Refused requests: a check throws, the catch block rolls the transaction
\* back and rethrows.  Nothing has been written; the request handler holds
\* the exception until it has released the queryRunner.
\* ==========================================================================

\* args: the identifiers the refused call was made with
Refused(of, error, args) == [op |-> "rollback", of |-> of, error |-> error, args |-> args]

\* the exception tenderLoad throws, in the order of its checks
TenderLoadError(shipmentId, carrierId, tenant) ==
    IF ShipmentTenant(shipmentId) # tenant THEN "Shipment not found"
    ELSE IF shipments[shipmentId].status # "QUOTE"
         THEN "Shipment must be in QUOTE status to tender"
    ELSE IF ~validateCarrierForTender(carrierId)
         THEN "Carrier must be ACTIVE to receive tenders"
    ELSE "Shipment is already tendered to this carrier"

TenderLoadRefused(p, shipmentId, carrierId, tenant) ==
    /\ pc[p] = Idle
    /\ requests < MaxRequests
    /\ requests' = requests + 1
    /\ ~TenderLoadValid(shipmentId, carrierId, tenant)
    /\ pc' = [pc EXCEPT ![p] = Refused("tenderLoad",
                                 TenderLoadError(shipmentId, carrierId, tenant),
                                 [shipmentId |-> shipmentId, carrierId |-> carrierId])]
    /\ UNCHANGED <<loadTenders, dispatchAssignments, shipments, carriers, drivers>>

\* the exception acceptTender throws, in the order of its checks
AcceptTenderError(tenderId, carrierId) ==
    IF ~findTenderForResponse(tenderId, carrierId) THEN "Tender not found"
    ELSE IF loadTenders[tenderId].status # "OFFERED"
         THEN "Tender cannot be accepted in current status"
    ELSE "Tender has expired"

AcceptTenderRefused(p, tenderId, carrierId) ==
    /\ pc[p] = Idle
    /\ requests < MaxRequests
    /\ requests' = requests + 1
    /\ ~AcceptTenderValid(tenderId, carrierId)
    /\ pc' = [pc EXCEPT ![p] = Refused("acceptTender",
                                 AcceptTenderError(tenderId, carrierId),
                                 [tenderId |-> tenderId])]
    /\ UNCHANGED <<loadTenders, dispatchAssignments, shipments, carriers, drivers>>

\* the exception assignDriver throws, in the order of its checks
AssignDriverError(shipmentId, driverId, tenant) ==
    IF ShipmentTenant(shipmentId) # tenant THEN "Shipment not found"
    ELSE IF shipments[shipmentId].status \notin {"BOOKED", "TENDERED"}
         THEN "Shipment must be BOOKED or TENDERED to dispatch"
    ELSE IF ~validateShipmentForDispatch(shipmentId, tenant)
         THEN "No accepted tender found for this shipment"
    ELSE IF ~validateDriverForAssignment(driverId) THEN "Driver is not active"
    ELSE IF ~isDriverAvailable(drivers[driverId])
         THEN "Driver is not available for dispatch"
    ELSE "Driver is already assigned to this shipment"

AssignDriverRefused(p, shipmentId, driverId, tenant) ==
    /\ pc[p] = Idle
    /\ requests < MaxRequests
    /\ requests' = requests + 1
    /\ ~AssignDriverValid(shipmentId, driverId, tenant)
    /\ pc' = [pc EXCEPT ![p] = Refused("assignDriver",
                                 AssignDriverError(shipmentId, driverId, tenant),
                                 [shipmentId |-> shipmentId, driverId |-> driverId])]
    /\ UNCHANGED <<loadTenders, dispatchAssignments, shipments, carriers, drivers>>

\* the exception processDriverResponse throws, in the order of its checks
ProcessDriverResponseError(driverId, assignmentId) ==
    IF ~(/\ assignmentId \in AssignmentIds
         /\ dispatchAssignments[assignmentId].driverId = driverId)
    THEN "Dispatch assignment not found"
    ELSE "Assignment is not in DISPATCHED status"

ProcessDriverResponseRefused(p, driverId, response, assignmentId) ==
    /\ pc[p] = Idle
    /\ requests < MaxRequests
    /\ requests' = requests + 1
    /\ ~ProcessDriverResponseValid(driverId, assignmentId)
    /\ pc' = [pc EXCEPT ![p] = Refused("processDriverResponse",
                                 ProcessDriverResponseError(driverId, assignmentId),
                                 [driverId |-> driverId, assignmentId |-> assignmentId])]
    /\ UNCHANGED <<loadTenders, dispatchAssignments, shipments, carriers, drivers>>

\* catch: rollbackTransaction, rethrow; finally: release
Rollback(p) ==
    /\ pc[p].op = "rollback"
    /\ pc' = [pc EXCEPT ![p] = Idle]
    /\ UNCHANGED <<loadTenders, dispatchAssignments, shipments, carriers, drivers, requests>>

\* ---- a booked shipment ---------------------------------------------------
\* Shipment s1 has been tendered to c1 and c1 has accepted (two requests);
\* s2 is still a QUOTE.  Driver d1 is fit for dispatch, d2 is any driver.
DriverProfiles ==
    {[status |-> st, isActive |-> act, completedLoads |-> 0,
      licenseExpired |-> lic, medicalExpired |-> med] :
        st \in {"ACTIVE", "OFF_DUTY", "SICK"}, act \in BOOLEAN,
        lic \in BOOLEAN, med \in BOOLEAN}

\* d2 is fit, or unfit for exactly one reason
DriverCases ==
    {prof \in DriverProfiles :
        \/ prof.isActive /\ ~prof.licenseExpired /\ ~prof.medicalExpired
        \/ /\ prof.status = "ACTIVE"
           /\ Cardinality({b \in {"a", "l", "m"} :
                             \/ b = "a" /\ ~prof.isActive
                             \/ b = "l" /\ prof.licenseExpired
                             \/ b = "m" /\ prof.medicalExpired}) = 1}

InitBooked ==
    /\ loadTenders = << [shipmentId |-> "s1", carrierId |-> "c1", status |-> "ACCEPTED",
                         expired |-> FALSE, auditTrail |-> <<"OFFERED", "ACCEPTED">>] >>
    /\ dispatchAssignments = << >>
    /\ shipments = [s \in Shipments |->
                      IF s = "s1"
                      THEN [status |-> "BOOKED", carrierId |-> "c1", assignedDriverId |-> NULL]
                      ELSE [status |-> "QUOTE", carrierId |-> NULL, assignedDriverId |-> NULL]]
    /\ \E st \in {"ACTIVE", "INACTIVE"} :
          carriers = [c \in Carriers |-> [status |-> IF c = "c1" THEN "ACTIVE" ELSE st]]
    /\ \E prof \in DriverCases :
          drivers = [d \in Drivers |->
                       IF d = "d1"
                       THEN [status |-> "ACTIVE", isActive |-> TRUE, completedLoads |-> 0,
                             licenseExpired |-> FALSE, medicalExpired |-> FALSE]
                       ELSE prof]
    /\ pc = [p \in Procs |-> Idle]
    /\ requests = 2

NextBooked ==
    \/ Next
    \/ \E p \in Procs, s \in Shipments, c \in Carriers, u \in Tenants :
          TenderLoadRefused(p, s, c, u)
    \/ \E p \in Procs, t \in TenderIds, c \in Carriers : AcceptTenderRefused(p, t, c)
    \/ \E p \in Procs, s \in Shipments, d \in Drivers, u \in Tenants :
          AssignDriverRefused(p, s, d, u)
    \/ \E p \in Procs, d \in Drivers, r \in {"1", "2"}, a \in AssignmentIds :
          ProcessDriverResponseRefused(p, d, r, a)
    \/ \E p \in Procs : Rollback(p)

SpecBooked == InitBooked /\ [][NextBooked]_vars

\* ==========================================================================
\* A statement of the transaction fails (QueryFailedError, lost connection):
\* the operation has issued its first write on the queryRunner, a later
\* statement or the commit throws, and the catch block rolls back.
\* ==========================================================================

TransactionalOps ==
    {"tenderLoad", "acceptTender", "rejectTender", "cancelTender",
     "assignDriver", "processDriverResponse"}

\* the tables as the database holds them
Database ==
    [loadTenders |-> loadTenders, dispatchAssignments |-> dispatchAssignments,
     shipments |-> shipments, drivers |-> drivers]

\* the tables as the transaction of process p sees them after the first
\* write statement of its operation
WrittenSoFar(p) ==
    LET op == pc[p].op
    IN CASE op = "tenderLoad" ->
              [Database EXCEPT !.shipments =
                  [shipments EXCEPT ![pc[p].shipmentId] =
                      [@ EXCEPT !.status = "TENDERED", !.carrierId = pc[p].carrierId]]]
         [] op = "acceptTender" ->
              [Database EXCEPT !.loadTenders =
                  [loadTenders EXCEPT ![pc[p].tenderId] = AcceptedRow(@, pc[p].tender)]]
         [] op = "rejectTender" ->
              [Database EXCEPT !.loadTenders =
                  [loadTenders EXCEPT ![pc[p].tenderId] = [@ EXCEPT !.status = "REJECTED"]]]
         [] op = "cancelTender" ->
              IF pc[p].tender.status = "ACCEPTED"
              THEN [Database EXCEPT !.shipments =
                      [shipments EXCEPT ![pc[p].tender.shipmentId] =
                          [@ EXCEPT !.status = "QUOTE", !.carrierId = NULL]]]
              ELSE [Database EXCEPT !.loadTenders =
                      [loadTenders EXCEPT ![pc[p].tenderId] =
                          [@ EXCEPT !.status = "CANCELLED"]]]
         [] op = "assignDriver" ->
              [Database EXCEPT !.dispatchAssignments =
                  Append(dispatchAssignments,
                         [shipmentId |-> pc[p].shipmentId, driverId |-> pc[p].driverId,
                          tenantId |-> pc[p].tenantId, status |-> "DISPATCHED"])]
         [] op = "processDriverResponse" ->
              [Database EXCEPT !.drivers =
                  [drivers EXCEPT ![pc[p].driverId] =
                      [@ EXCEPT !.status = IF pc[p].response = "1"
                                           THEN "ON_LOAD" ELSE "ACTIVE"]]]

\* the identifiers the operation of process p was called with
CallArgs(p) ==
    LET op == pc[p].op
    IN CASE op = "tenderLoad" ->
              [shipmentId |-> pc[p].shipmentId, carrierId |-> pc[p].carrierId]
         [] op \in {"acceptTender", "rejectTender", "cancelTender"} ->
              [tenderId |-> pc[p].tenderId]
         [] op = "assignDriver" ->
              [shipmentId |-> pc[p].shipmentId, driverId |-> pc[p].driverId]
         [] op = "processDriverResponse" ->
              [driverId |-> pc[p].driverId, assignmentId |-> pc[p].assignmentId]

\* a rollback that leaves the statements already executed in place
rollbackTransactionKeepingWrites(committed, written) == written

\* queryRunner.rollbackTransaction: the tables are what was committed
rollbackTransaction(committed, written) == committed

TransactionFails(p) ==
    /\ pc[p].op \in TransactionalOps
    /\ LET after == rollbackTransaction(Database, WrittenSoFar(p))
       IN /\ loadTenders' = after.loadTenders
          /\ dispatchAssignments' = after.dispatchAssignments
          /\ shipments' = after.shipments
          /\ drivers' = after.drivers
    /\ pc' = [pc EXCEPT ![p] = Refused(pc[p].op, "QueryFailedError", CallArgs(p))]
    /\ UNCHANGED <<carriers, requests>>

\* the booked shipment with every carrier ACTIVE and both drivers fit
InitBookedAllFit ==
    /\ InitBooked
    /\ \A c \in Carriers : carriers[c].status = "ACTIVE"
    /\ \A d \in Drivers : /\ drivers[d].isActive
                          /\ isDriverAvailable(drivers[d])
                          /\ drivers[d].status = "ACTIVE"

NextAtomic ==
    \/ NextBooked
    \/ \E p \in Procs : TransactionFails(p)

SpecAtomic == InitBookedAllFit /\ [][NextAtomic]_vars

\* ==========================================================================
\* assignDriver after its commit: the dispatch SMS and the returned result
\* ==========================================================================

\* SmsResult of sendDispatchSms: sent, or failed (also when the send throws)
SmsResults == {[success |-> TRUE], [success |-> FALSE]}

\* a result that reports the failure of the SMS as its own
dispatchResponseOfSms(smsResult) ==
    [success |-> smsResult.success, smsResult |-> smsResult]

\* the DispatchResponse assignDriver returns
dispatchResponse(smsResult) == [success |-> TRUE, smsResult |-> smsResult]

\* assignDriver's commit, seen together with what the handler does next
AssignDriverCommitted(p) ==
    /\ pc[p].op = "assignDriver"
    /\ AssignDriverWrites(p)
    /\ pc' = [pc EXCEPT ![p] = [op |-> "sendDispatchSms",
                                 assignmentId |-> Len(dispatchAssignments) + 1,
                                 shipmentId |-> pc[p].shipmentId,
                                 driverId |-> pc[p].driverId]]
    /\ UNCHANGED <<loadTenders, carriers, requests>>

\* sendDispatchSms and updateSmsLog (both catch their errors), then the
\* result is built
SendDispatchSms(p, smsResult) ==
    /\ pc[p].op = "sendDispatchSms"
    /\ pc' = [pc EXCEPT ![p] = [op |-> "assignDriverReturn",
                                 assignmentId |-> pc[p].assignmentId,
                                 shipmentId |-> pc[p].shipmentId,
                                 driverId |-> pc[p].driverId,
                                 response |-> dispatchResponse(smsResult)]]
    /\ UNCHANGED <<loadTenders, dispatchAssignments, shipments, carriers, drivers, requests>>

AssignDriverReturn(p) ==
    /\ pc[p].op = "assignDriverReturn"
    /\ pc' = [pc EXCEPT ![p] = Idle]
    /\ UNCHANGED <<loadTenders, dispatchAssignments, shipments, carriers, drivers, requests>>

NextNotify ==
    \/ \E p \in Procs, s \in Shipments, d \in Drivers, u \in Tenants :
          AssignDriverBegin(p, s, d, u)
    \/ \E p \in Procs : AssignDriverCommitted(p)
    \/ \E p \in Procs, smsResult \in SmsResults : SendDispatchSms(p, smsResult)
    \/ \E p \in Procs : AssignDriverReturn(p)
    \/ \E p \in Procs, d \in Drivers, r \in {"1", "2"}, a \in AssignmentIds :
          ProcessDriverResponseBegin(p, d, r, a)
    \/ \E p \in Procs : ProcessDriverResponseCommit(p)

SpecNotify == InitBookedAllFit /\ [][NextNotify]_vars

\* ==========================================================================
\* The calling user's tenant (user.companyId) in cancelTender and in the
\* list query by shipment
\* ==========================================================================

\* cancelTender called by a user of tenant: the checks do not look at it
CancelTenderAs(p, tenderId, tenant) ==
    /\ pc[p] = Idle
    /\ requests < MaxRequests
    /\ requests' = requests + 1
    /\ CancelTenderValid(tenderId)
    /\ pc' = [pc EXCEPT ![p] = [op |-> "cancelTender", tenderId |-> tenderId,
                                 tender |-> loadTenders[tenderId], tenant |-> tenant]]
    /\ UNCHANGED <<loadTenders, dispatchAssignments, shipments, carriers, drivers>>

\* getTendersForShipment: find where shipmentId
getTendersForShipment(shipmentId, tenant) ==
    {t \in TenderIds : loadTenders[t].shipmentId = shipmentId}

GetTendersForShipment(p, shipmentId, tenant) ==
    /\ pc[p] = Idle
    /\ requests < MaxRequests
    /\ requests' = requests + 1
    /\ pc' = [pc EXCEPT ![p] = [op |-> "getTendersReturn", tenant |-> tenant,
                                 tenders |-> getTendersForShipment(shipmentId, tenant)]]
    /\ UNCHANGED <<loadTenders, dispatchAssignments, shipments, carriers, drivers>>

GetTendersReturn(p) ==
    /\ pc[p].op = "getTendersReturn"
    /\ pc' = [pc EXCEPT ![p] = Idle]
    /\ UNCHANGED <<loadTenders, dispatchAssignments, shipments, carriers, drivers, requests>>

NextTenants ==
    \/ \E p \in Procs, s \in Shipments, c \in Carriers, u \in Tenants :
          TenderLoadBegin(p, s, c, u)
    \/ \E p \in Procs : TenderLoadCommit(p)
    \/ \E p \in Procs, t \in TenderIds, u \in Tenants : CancelTenderAs(p, t, u)
    \/ \E p \in Procs : CancelTenderCommit(p)
    \/ \E p \in Procs, s \in Shipments, u \in Tenants : GetTendersForShipment(p, s, u)
    \/ \E p \in Procs : GetTendersReturn(p)

SpecTenants == InitBookedAllFit /\ [][NextTenants]_vars

\* ==========================================================================
\* Actors change while an offer to them is open
\* ==========================================================================

\* CarriersService.updateStatus
CarrierUpdateStatus(c, status) ==
    /\ carriers[c].status # status
    /\ carriers' = [carriers EXCEPT ![c] = [@ EXCEPT !.status = status]]
    /\ UNCHANGED <<loadTenders, dispatchAssignments, shipments, drivers, pc, requests>>

\* DriversService.deactivate
DriverDeactivate(d) ==
    /\ drivers[d].isActive
    /\ drivers' = [drivers EXCEPT ![d] = [@ EXCEPT !.isActive = FALSE,
                                                   !.status = "INACTIVE"]]
    /\ UNCHANGED <<loadTenders, dispatchAssignments, shipments, carriers, pc, requests>>

\* the clock passes the driver's licenseExpirationDate
LicenseExpires(d) ==
    /\ ~drivers[d].licenseExpired
    /\ drivers' = [drivers EXCEPT ![d] = [@ EXCEPT !.licenseExpired = TRUE]]
    /\ UNCHANGED <<loadTenders, dispatchAssignments, shipments, carriers, pc, requests>>

\* the clock passes the expirationDate of the driver's medical certificate
MedicalExpires(d) ==
    /\ ~drivers[d].medicalExpired
    /\ drivers' = [drivers EXCEPT ![d] = [@ EXCEPT !.medicalExpired = TRUE]]
    /\ UNCHANGED <<loadTenders, dispatchAssignments, shipments, carriers, pc, requests>>

\* ---- open offers ------------------------------------------------------------
\* s1 is dispatched to driver d1 (as in InitDispatched) and s2 has been
\* tendered to carrier c2; the tender of s2 is not counted in requests
InitOpenOffers ==
    /\ loadTenders = << [shipmentId |-> "s1", carrierId |-> "c1", status |-> "ACCEPTED",
                         expired |-> FALSE, auditTrail |-> <<"OFFERED", "ACCEPTED">>],
                        [shipmentId |-> "s2", carrierId |-> "c2", status |-> "OFFERED",
                         expired |-> FALSE, auditTrail |-> <<"OFFERED">>] >>
    /\ dispatchAssignments = << [shipmentId |-> "s1", driverId |-> "d1", tenantId |-> "tA",
                                 status |-> "DISPATCHED"] >>
    /\ \E st \in AssignDriverShipmentStatus("BOOKED") :
          shipments = [s \in Shipments |->
                         IF s = "s1"
                         THEN [status |-> st, carrierId |-> "c1", assignedDriverId |-> "d1"]
                         ELSE [status |-> "TENDERED", carrierId |-> "c2",
                               assignedDriverId |-> NULL]]
    /\ carriers = [c \in Carriers |-> [status |-> "ACTIVE"]]
    /\ drivers = [d \in Drivers |->
                    [status |-> IF d = "d1" THEN "ON_LOAD" ELSE "ACTIVE",
                     isActive |-> TRUE,
                     completedLoads |-> IF d = "d1" THEN 1 ELSE 0,
                     licenseExpired |-> FALSE, medicalExpired |-> FALSE]]
    /\ pc = [p \in Procs |-> Idle]
    /\ requests = 3

NextEligibility ==
    \/ \E p \in Procs, t \in TenderIds, c \in Carriers : AcceptTenderBegin(p, t, c)
    \/ \E p \in Procs : AcceptTenderCommit(p)
    \/ \E p \in Procs, t \in TenderIds, c \in Carriers : RejectTenderBegin(p, t, c)
    \/ \E p \in Procs : RejectTenderCommit(p)
    \/ \E p \in Procs, d \in Drivers, r \in {"1", "2"}, a \in AssignmentIds :
          ProcessDriverResponseBegin(p, d, r, a)
    \/ \E p \in Procs : ProcessDriverResponseCommit(p)
    \/ \E c \in Carriers, status \in {"ACTIVE", "INACTIVE"} : CarrierUpdateStatus(c, status)
    \/ \E d \in Drivers : DriverDeactivate(d)
    \/ \E d \in Drivers : LicenseExpires(d)
    \/ \E d \in Drivers : MedicalExpires(d)

SpecEligibility == InitOpenOffers /\ [][NextEligibility]_vars

\* ==========================================================================
\* Shipment edit (ShipmentsService.update)
\* ==========================================================================

\* UpdateShipmentDto: every field is optional; status and carrierId are among
\* them, the empty dto stands for an edit of the other fields only
UpdateShipmentDtos ==
    {[f \in {} |-> NULL], [status |-> "IN_TRANSIT"], [carrierId |-> "c1"]}

\* { ...existingShipment, ...updateShipmentDto }
spread(existingShipment, updateShipmentDto) ==
    [f \in DOMAIN existingShipment |->
        IF f \in DOMAIN updateShipmentDto THEN updateShipmentDto[f]
        ELSE existingShipment[f]]

\* update: findById reads the shipment of the user's tenant
ShipmentUpdateBegin(p, id, updateShipmentDto) ==
    /\ pc[p] = Idle
    /\ requests < MaxRequests
    /\ requests' = requests + 1
    /\ pc' = [pc EXCEPT ![p] = [op |-> "updateShipment", id |-> id,
                                 existingShipment |-> shipments[id],
                                 updateShipmentDto |-> updateShipmentDto]]
    /\ UNCHANGED <<loadTenders, dispatchAssignments, shipments, carriers, drivers>>

\* update: the merged row is saved and the transaction commits
ShipmentUpdateCommit(p) ==
    /\ pc[p].op = "updateShipment"
    /\ shipments' = [shipments EXCEPT ![pc[p].id] =
                        spread(pc[p].existingShipment, pc[p].updateShipmentDto)]
    /\ pc' = [pc EXCEPT ![p] = Idle]
    /\ UNCHANGED <<loadTenders, dispatchAssignments, carriers, drivers, requests>>

NextShipmentEdit ==
    \/ \E p \in Procs, t \in TenderIds, c \in Carriers : AcceptTenderBegin(p, t, c)
    \/ \E p \in Procs : AcceptTenderCommit(p)
    \/ \E p \in Procs, id \in Shipments, dto \in UpdateShipmentDtos :
          ShipmentUpdateBegin(p, id, dto)
    \/ \E p \in Procs : ShipmentUpdateCommit(p)

SpecShipmentEdit == InitOpenOffers /\ [][NextShipmentEdit]_vars

\* ==========================================================================
\* Dispatch of two booked shipments
\* ==========================================================================

\* both shipments are BOOKED by an accepted tender, no driver is dispatched
InitTwoBooked ==
    /\ loadTenders = << [shipmentId |-> "s1", carrierId |-> "c1", status |-> "ACCEPTED",
                         expired |-> FALSE, auditTrail |-> <<"OFFERED", "ACCEPTED">>],
                        [shipmentId |-> "s2", carrierId |-> "c2", status |-> "ACCEPTED",
                         expired |-> FALSE, auditTrail |-> <<"OFFERED", "ACCEPTED">>] >>
    /\ dispatchAssignments = << >>
    /\ shipments = [s \in Shipments |->
                      [status |-> "BOOKED",
                       carrierId |-> IF s = "s1" THEN "c1" ELSE "c2",
                       assignedDriverId |-> NULL]]
    /\ carriers = [c \in Carriers |-> [status |-> "ACTIVE"]]
    /\ drivers = [d \in Drivers |->
                    [status |-> "ACTIVE", isActive |-> TRUE, completedLoads |-> 0,
                     licenseExpired |-> FALSE, medicalExpired |-> FALSE]]
    /\ pc = [p \in Procs |-> Idle]
    /\ requests = 1

NextDispatch ==
    \/ \E p \in Procs, s \in Shipments, d \in Drivers, u \in Tenants :
          AssignDriverBegin(p, s, d, u)
    \/ \E p \in Procs : AssignDriverCommit(p)
    \/ \E p \in Procs, s \in Shipments, d \in Drivers, u \in Tenants :
          AssignDriverRefused(p, s, d, u)
    \/ \E p \in Procs, d \in Drivers, r \in {"1", "2"}, a \in AssignmentIds :
          ProcessDriverResponseBegin(p, d, r, a)
    \/ \E p \in Procs : ProcessDriverResponseCommit(p)
    \/ \E p \in Procs, d \in Drivers, r \in {"1", "2"}, a \in AssignmentIds :
          ProcessDriverResponseRefused(p, d, r, a)
    \/ \E p \in Procs : Rollback(p)

SpecDispatch == InitTwoBooked /\ [][NextDispatch]_vars

\* ==========================================================================
\* Inbound SMS webhook (WebhooksController)
\* ==========================================================================

\* message bodies are sequences of characters
UpperCase == <<"A", "B", "C", "D", "E", "F", "G", "H", "I", "J", "K", "L", "M", "N", "O", "P", "Q", "R", "S", "T", "U", "V", "W", "X", "Y", "Z">>
LowerCase == <<"a", "b", "c", "d", "e", "f", "g", "h", "i", "j", "k", "l", "m", "n", "o", "p", "q", "r", "s", "t", "u", "v", "w", "x", "y", "z">>

toLowerCase(body) ==
    [i \in 1..Len(body) |->
        IF \E k \in 1..Len(UpperCase) : UpperCase[k] = body[i]
        THEN LowerCase[CHOOSE k \in 1..Len(UpperCase) : UpperCase[k] = body[i]]
        ELSE body[i]]

RECURSIVE trimStart(_)
trimStart(body) ==
    IF body # << >> /\ Head(body) = " " THEN trimStart(Tail(body)) ELSE body

RECURSIVE trimEnd(_)
trimEnd(body) ==
    IF body # << >> /\ body[Len(body)] = " "
    THEN trimEnd(SubSeq(body, 1, Len(body) - 1))
    ELSE body

trim(body) == trimEnd(trimStart(body))

\* String.prototype.includes, and an unanchored pattern of literal characters
includes(body, word) ==
    \E i \in 1..(Len(body) - Len(word) + 1) : SubSeq(body, i, i + Len(word) - 1) = word

\* confirmPatterns and rejectPatterns without the anchored /^1$/ and /^2$/
confirmPatterns ==
    {<<"c", "o", "n", "f", "i", "r", "m">>,
     <<"a", "c", "c", "e", "p", "t">>,
     <<"y", "e", "s">>,
     <<"o", "k">>,
     <<"g", "o", "t", " ", "i", "t">>,
     <<"o", "n", " ", "m", "y", " ", "w", "a", "y">>}
rejectPatterns ==
    {<<"r", "e", "j", "e", "c", "t">>,
     <<"d", "e", "c", "l", "i", "n", "e">>,
     <<"n", "o">>,
     <<"c", "a", "n", "'", "t">>,
     <<"c", "a", "n", "n", "o", "t">>,
     <<"n", "o", "t", " ", "a", "v", "a", "i", "l", "a", "b", "l", "e">>,
     <<"b", "u", "s", "y">>}

\* parseSmsResponse: '1' / 'confirm', then '2' / 'reject', then the confirm
\* patterns, then the reject patterns; it never yields a driver or an
\* assignment id
parseSmsResponse(raw) ==
    LET body == toLowerCase(trim(raw))
        response ==
            IF body = <<"1">> \/ includes(toLowerCase(body), <<"c", "o", "n", "f", "i", "r", "m">>) THEN "1"
            ELSE IF body = <<"2">> \/ includes(toLowerCase(body), <<"r", "e", "j", "e", "c", "t">>) THEN "2"
            ELSE IF \/ \E w \in confirmPatterns : includes(body, w)
                    \/ body = <<"1">>
                 THEN "1"
            ELSE IF \/ \E w \in rejectPatterns : includes(body, w)
                    \/ body = <<"2">>
                 THEN "2"
            ELSE NULL
    IN [response |-> response, driverId |-> NULL, assignmentId |-> NULL]

\* the bodies and senders of the inbound messages
Bodies ==
    {<<"1">>,
     <<"2">>,
     <<" ", "1", " ">>,
     <<"1", "2">>,
     <<"m", "a", "y", "b", "e">>,
     <<"A", "c", "c", "e", "p", "t">>,
     <<"Y", "E", "S">>,
     <<"o", "k">>,
     <<"g", "o", "t", " ", "i", "t">>,
     <<"o", "n", " ", "m", "y", " ", "w", "a", "y">>,
     <<"c", "o", "n", "f", "i", "r", "m">>,
     <<"R", "e", "j", "e", "c", "t">>,
     <<"d", "e", "c", "l", "i", "n", "e">>,
     <<"n", "o">>,
     <<"c", "a", "n", "'", "t">>,
     <<"b", "u", "s", "y">>,
     <<"n", "o", "t", " ", "a", "v", "a", "i", "l", "a", "b", "l", "e">>,
     <<"o", "k", " ", "r", "e", "j", "e", "c", "t">>,
     <<"y", "e", "s", " ", "n", "o">>,
     << >>}
phoneNumber(d) == IF d = "d1" THEN "+15550001" ELSE "+15550002"
Senders == {phoneNumber(d) : d \in Drivers} \cup {"+15550009"}

\* SmsWebhookPayload; the provider may also post a payload without Body
Payloads ==
    {[From |-> from, Body |-> body] : from \in Senders, body \in Bodies}
        \cup {[From |-> from] : from \in Senders}

\* variant of the handler's failure body that claims success
webhookFailureAsSuccess(message) == [success |-> TRUE, message |-> message]

\* the body the handler returns when it could not process the message
webhookFailure(message) == [success |-> FALSE, message |-> message]

\* what parseSmsResponse yields when nothing was parsed
NothingParsed == [response |-> NULL, driverId |-> NULL, assignmentId |-> NULL]

\* the handler has built the object it returns
WebhookReturns(p, payload, parsed, response) ==
    /\ requests' = requests + 1
    /\ pc' = [pc EXCEPT ![p] = [op |-> "webhookReturn", payload |-> payload,
                                 parsed |-> parsed, response |-> response]]
    /\ UNCHANGED <<loadTenders, dispatchAssignments, shipments, carriers, drivers>>

\* receiveSmsWebhook up to its return statement or its call of
\* processDriverResponse
ReceiveSmsWebhook(p, payload) ==
    /\ pc[p] = Idle
    /\ requests < MaxRequests
    /\ IF "Body" \notin DOMAIN payload
       THEN WebhookReturns(p, payload, NothingParsed,
                webhookFailure("Failed to process webhook: Cannot read properties of undefined"))
       ELSE LET parsed == parseSmsResponse(payload.Body)
            IN IF parsed.response = NULL
               THEN WebhookReturns(p, payload, parsed,
                        webhookFailure("Unrecognized SMS response"))
               ELSE IF parsed.driverId = NULL \/ parsed.assignmentId = NULL
               THEN WebhookReturns(p, payload, parsed,
                        webhookFailure("Could not process SMS response - missing IDs"))
               ELSE IF ProcessDriverResponseValid(parsed.driverId, parsed.assignmentId)
               THEN ProcessDriverResponseBegin(p, parsed.driverId, parsed.response,
                                               parsed.assignmentId)
               ELSE WebhookReturns(p, payload, parsed,
                        webhookFailure("Failed to process webhook: Dispatch assignment not found"))

\* the handler returns
WebhookReturn(p) ==
    /\ pc[p].op = "webhookReturn"
    /\ pc' = [pc EXCEPT ![p] = Idle]
    /\ UNCHANGED <<loadTenders, dispatchAssignments, shipments, carriers, drivers, requests>>

\* ---- a dispatched shipment ------------------------------------------------
\* s1 has been tendered, accepted and dispatched to driver d1 (three requests)
InitDispatched ==
    /\ loadTenders = << [shipmentId |-> "s1", carrierId |-> "c1", status |-> "ACCEPTED",
                         expired |-> FALSE, auditTrail |-> <<"OFFERED", "ACCEPTED">>] >>
    /\ dispatchAssignments = << [shipmentId |-> "s1", driverId |-> "d1", tenantId |-> "tA",
                                 status |-> "DISPATCHED"] >>
    /\ \E st \in AssignDriverShipmentStatus("BOOKED") :
          shipments = [s \in Shipments |->
                         IF s = "s1"
                         THEN [status |-> st, carrierId |-> "c1", assignedDriverId |-> "d1"]
                         ELSE [status |-> "QUOTE", carrierId |-> NULL,
                               assignedDriverId |-> NULL]]
    /\ carriers = [c \in Carriers |-> [status |-> "ACTIVE"]]
    /\ drivers = [d \in Drivers |->
                    [status |-> IF d = "d1" THEN "ON_LOAD" ELSE "ACTIVE",
                     isActive |-> TRUE,
                     completedLoads |-> IF d = "d1" THEN 1 ELSE 0,
                     licenseExpired |-> FALSE, medicalExpired |-> FALSE]]
    /\ pc = [p \in Procs |-> Idle]
    /\ requests = 3

NextWebhook ==
    \/ \E p \in Procs, payload \in Payloads : ReceiveSmsWebhook(p, payload)
    \/ \E p \in Procs : WebhookReturn(p)
    \/ \E p \in Procs, d \in Drivers, r \in {"1", "2"}, a \in AssignmentIds :
          ProcessDriverResponseBegin(p, d, r, a)
    \/ \E p \in Procs : ProcessDriverResponseCommit(p)
    \/ \E p \in Procs, d \in Drivers, r \in {"1", "2"}, a \in AssignmentIds :
          ProcessDriverResponseRefused(p, d, r, a)
    \/ \E p \in Procs : Rollback(p)

SpecWebhook == InitDispatched /\ [][NextWebhook]_vars

\* ==========================================================================
\* Properties
\* ==========================================================================

\* the step taken is the commit of p's request of this kind
Commits(p, kind) == pc[p].op = kind /\ pc'[p] = Idle

TendersOf(shipmentId) == {t \in TenderIds : loadTenders[t].shipmentId = shipmentId}
AssignmentsOf(shipmentId) ==
    {a \in AssignmentIds : dispatchAssignments[a].shipmentId = shipmentId}

TenderTerminal == {"ACCEPTED", "REJECTED", "EXPIRED", "CANCELLED"}
DispatchTerminal == {"CONFIRMED", "REJECTED", "CANCELLED"}

\* C1: the commit of an acceptTender on a tender T that is OFFERED leaves T
\* ACCEPTED, T the only ACCEPTED tender of its shipment, and every sibling
\* that was OFFERED CANCELLED.
C1_AcceptLeavesSingleWinner ==
    [][\A p \in Procs :
         (Commits(p, "acceptTender") /\ loadTenders[pc[p].tenderId].status = "OFFERED")
         => LET id == pc[p].tenderId
                sid == loadTenders[id].shipmentId
            IN /\ loadTenders'[id].status = "ACCEPTED"
               /\ \A t \in TendersOf(sid) \ {id} :
                     /\ loadTenders'[t].status # "ACCEPTED"
                     /\ loadTenders[t].status = "OFFERED"
                           => loadTenders'[t].status = "CANCELLED"]_vars

\* C2: a tender or dispatch assignment that is in a terminal state keeps
\* that state in every later step.
C2_TerminalStatesAreFinal ==
    [][/\ \A t \in TenderIds :
             loadTenders[t].status \in TenderTerminal
                => loadTenders'[t].status = loadTenders[t].status
       /\ \A a \in AssignmentIds :
             dispatchAssignments[a].status \in DispatchTerminal
                => dispatchAssignments'[a].status = dispatchAssignments[a].status]_vars

\* C3: a response operation writes only to an offer that is still open when
\* it commits: of two concurrent responses to one offer the second one to
\* commit finds the offer closed and must not write.
C3_OneResponseWrites ==
    [][\A p \in Procs :
         /\ (Commits(p, "acceptTender") \/ Commits(p, "rejectTender"))
               => loadTenders[pc[p].tenderId].status = "OFFERED"
         /\ Commits(p, "processDriverResponse")
               => dispatchAssignments[pc[p].assignmentId].status = "DISPATCHED"]_vars

\* C4: at most one tender of a shipment is ACCEPTED in any committed state.
C4_AtMostOneAccepted ==
    \A s \in Shipments :
        Cardinality({t \in TendersOf(s) : loadTenders[t].status = "ACCEPTED"}) <= 1

\* C5: while shipment S has an OFFERED tender to carrier C1, a tenderLoad of
\* S to another ACTIVE carrier C2 that holds no OFFERED tender for S passes
\* the checks of tenderLoad (so that both tenders are OFFERED together).
C5_SecondCarrierCanBeTendered ==
    \A s \in Shipments, c1 \in Carriers, c2 \in Carriers :
        (/\ c1 # c2
         /\ existingTender(s, c1)
         /\ carriers[c2].status = "ACTIVE"
         /\ ~existingTender(s, c2))
        => TenderLoadValid(s, c2, ShipmentTenant(s))

\* C6: no two OFFERED tenders share a (shipmentId, carrierId) pair.
C6_OneOfferedPerPair ==
    \A t1 \in TenderIds, t2 \in TenderIds :
        (/\ t1 # t2
         /\ loadTenders[t1].status = "OFFERED"
         /\ loadTenders[t2].status = "OFFERED"
         /\ loadTenders[t1].shipmentId = loadTenders[t2].shipmentId)
        => loadTenders[t1].carrierId # loadTenders[t2].carrierId

\* C7: the commit of a driver confirmation ('1') leaves every other dispatch
\* assignment as it was; in particular no sibling is cancelled.
C7_ConfirmLeavesSiblings ==
    [][\A p \in Procs :
         (Commits(p, "processDriverResponse") /\ pc[p].response = "1")
         => \A a \in AssignmentIds \ {pc[p].assignmentId} :
               dispatchAssignments'[a] = dispatchAssignments[a]]_vars

\* C7 witness: an assignment is CONFIRMED while a sibling assignment of the
\* same shipment is still DISPATCHED.
C7_Witness ==
    \E a \in AssignmentIds, b \in AssignmentIds :
        /\ a # b
        /\ dispatchAssignments[a].shipmentId = dispatchAssignments[b].shipmentId
        /\ dispatchAssignments[a].status = "CONFIRMED"
        /\ dispatchAssignments[b].status = "DISPATCHED"

\* C8: the commit of acceptTender makes the tender ACCEPTED and, in the same
\* step, the shipment BOOKED with the tender's carrier.
C8_AcceptBooksShipment ==
    [][\A p \in Procs :
         Commits(p, "acceptTender")
         => LET id == pc[p].tenderId
                sid == loadTenders[id].shipmentId
            IN /\ loadTenders'[id].status = "ACCEPTED"
               /\ shipments'[sid].status = "BOOKED"
               /\ shipments'[sid].carrierId = loadTenders'[id].carrierId]_vars

\* C8 witness: a tender is ACCEPTED and its shipment is BOOKED with the
\* tender's carrier.
C8_Witness ==
    \E t \in TenderIds :
        /\ loadTenders[t].status = "ACCEPTED"
        /\ shipments[loadTenders[t].shipmentId].status = "BOOKED"
        /\ shipments[loadTenders[t].shipmentId].carrierId = loadTenders[t].carrierId

\* C9 (as stated): the commit of a driver confirmation sets the assignment
\* CONFIRMED and the shipment to a 'confirmed' status.
C9_ConfirmMovesShipmentToConfirmed ==
    [][\A p \in Procs :
         (Commits(p, "processDriverResponse") /\ pc[p].response = "1")
         => /\ dispatchAssignments'[pc[p].assignmentId].status = "CONFIRMED"
            /\ shipments'[pc[p].assignment.shipmentId].status = "CONFIRMED"]_vars

\* C9 (amended): the commit of a driver confirmation sets the assignment
\* CONFIRMED and the shipment's status to BOOKED.
C9_ConfirmBooksShipment ==
    [][\A p \in Procs :
         (Commits(p, "processDriverResponse") /\ pc[p].response = "1")
         => /\ dispatchAssignments'[pc[p].assignmentId].status = "CONFIRMED"
            /\ shipments'[pc[p].assignment.shipmentId].status = "BOOKED"]_vars

\* C9 witness: an assignment is CONFIRMED and its shipment is BOOKED.
C9_Witness ==
    \E a \in AssignmentIds :
        /\ dispatchAssignments[a].status = "CONFIRMED"
        /\ shipments[dispatchAssignments[a].shipmentId].status = "BOOKED"

\* C10: the commit of rejectTender changes the tender only, and the
\* shipment is (still) in QUOTE, so that it can be tendered again.
C10_RejectLeavesShipmentQuoted ==
    [][\A p \in Procs :
         Commits(p, "rejectTender")
         => /\ shipments' = shipments
            /\ shipments'[loadTenders[pc[p].tenderId].shipmentId].status = "QUOTE"]_vars

\* C11: the commit of a driver rejection ('2') sets the assignment REJECTED,
\* the shipment's status TENDERED and the shipment's assigned driver to null,
\* all in that one step.
C11_RejectRevertsShipment ==
    [][\A p \in Procs :
         (Commits(p, "processDriverResponse") /\ pc[p].response = "2")
         => /\ dispatchAssignments'[pc[p].assignmentId].status = "REJECTED"
            /\ shipments'[pc[p].assignment.shipmentId].status = "TENDERED"
            /\ shipments'[pc[p].assignment.shipmentId].assignedDriverId = NULL]_vars

\* C11 witness: an assignment is REJECTED, its shipment is TENDERED with no
\* assigned driver, and the driver is ACTIVE again.
C11_Witness ==
    \E a \in AssignmentIds :
        /\ dispatchAssignments[a].status = "REJECTED"
        /\ shipments[dispatchAssignments[a].shipmentId].status = "TENDERED"
        /\ shipments[dispatchAssignments[a].shipmentId].assignedDriverId = NULL
        /\ drivers[dispatchAssignments[a].driverId].status = "ACTIVE"

\* a step in which process p starts acceptTender on tender t, whether the
\* checks pass or throw
StartsAccept(p, t) ==
    /\ pc[p] = Idle
    /\ \/ pc'[p].op = "acceptTender" /\ pc'[p].tenderId = t
       \/ pc'[p].op = "rollback" /\ pc'[p].of = "acceptTender" /\ pc'[p].args.tenderId = t

\* a step in which process p rethrows the exception of operation kind
Rethrows(p, kind) ==
    /\ pc[p].op = "rollback"
    /\ pc[p].of = kind
    /\ pc'[p] = Idle

\* C12: acceptTender on an OFFERED tender that is past its offerExpiryDate
\* throws; neither the throwing step nor the rollback that follows changes a
\* tender (the tender stays as it was, no sibling is cancelled) or a
\* shipment.
C12_ExpiredAcceptRefused ==
    [][\A p \in Procs :
         /\ \A t \in TenderIds :
               (/\ loadTenders[t].status = "OFFERED"
                /\ loadTenders[t].expired
                /\ StartsAccept(p, t))
               => /\ pc'[p].op = "rollback"
                  /\ pc'[p].error \in {"Tender has expired", "Tender not found"}
                  /\ loadTenders' = loadTenders
                  /\ shipments' = shipments
         /\ Rethrows(p, "acceptTender")
               => /\ loadTenders' = loadTenders
                  /\ shipments' = shipments]_vars

\* C12 witness: an acceptTender has thrown 'Tender has expired' for a tender
\* that is OFFERED and expired, beside an OFFERED sibling of the same shipment.
C12_Witness ==
    \E p \in Procs :
        /\ pc[p].op = "rollback"
        /\ pc[p].of = "acceptTender"
        /\ pc[p].error = "Tender has expired"
        /\ loadTenders[pc[p].args.tenderId].status = "OFFERED"
        /\ loadTenders[pc[p].args.tenderId].expired
        /\ \E u \in TendersOf(loadTenders[pc[p].args.tenderId].shipmentId) \ {pc[p].args.tenderId} :
               loadTenders[u].status = "OFFERED"

\* C13: when acceptTender has been refused because the tender's expiry has
\* passed, the tender is EXPIRED once the call has returned.
C13_RefusalExpiresTender ==
    [][\A p \in Procs :
         (Rethrows(p, "acceptTender") /\ pc[p].error = "Tender has expired")
         => loadTenders'[pc[p].args.tenderId].status = "EXPIRED"]_vars

\* a step in which process p starts operation kind, whether its checks pass
\* or throw
StartsCall(p, kind) ==
    /\ pc[p] = Idle
    /\ \/ pc'[p].op = kind
       \/ pc'[p].op = "rollback" /\ pc'[p].of = kind

\* the shipment and the driver a starting tenderLoad / assignDriver is for
ShipmentArg(p) ==
    IF pc'[p].op = "rollback" THEN pc'[p].args.shipmentId ELSE pc'[p].shipmentId
DriverArg(p) ==
    IF pc'[p].op = "rollback" THEN pc'[p].args.driverId ELSE pc'[p].driverId
CarrierArg(p) ==
    IF pc'[p].op = "rollback" THEN pc'[p].args.carrierId ELSE pc'[p].carrierId

\* the step throws and writes nothing
ThrowsUnchanged(p) ==
    /\ pc'[p].op = "rollback"
    /\ UNCHANGED <<loadTenders, dispatchAssignments, shipments, drivers>>

\* C14: a tenderLoad called while the shipment is not in QUOTE throws, and an
\* assignDriver called while the shipment is not BOOKED or TENDERED, or has
\* no ACCEPTED tender, throws; the throwing call creates no tender and no
\* assignment and changes no shipment, driver or existing offer, up to and
\* including its rollback.
C14_CreationGatedOnShipment ==
    [][\A p \in Procs :
         /\ (/\ StartsCall(p, "tenderLoad")
             /\ shipments[ShipmentArg(p)].status # "QUOTE")
            => ThrowsUnchanged(p)
         /\ (/\ StartsCall(p, "assignDriver")
             /\ ~(/\ shipments[ShipmentArg(p)].status \in {"BOOKED", "TENDERED"}
                  /\ \E t \in TendersOf(ShipmentArg(p)) :
                        loadTenders[t].status = "ACCEPTED"))
            => ThrowsUnchanged(p)
         /\ (Rethrows(p, "tenderLoad") \/ Rethrows(p, "assignDriver"))
            => UNCHANGED <<loadTenders, dispatchAssignments, shipments, drivers>>]_vars

\* C14 witness: a tenderLoad has thrown for a shipment that is not in QUOTE
\* while an assignDriver has thrown for a TENDERED shipment without an
\* ACCEPTED tender.
C14_Witness ==
    \E p \in Procs, q \in Procs :
        /\ pc[p].op = "rollback" /\ pc[p].of = "tenderLoad"
        /\ pc[p].error = "Shipment must be in QUOTE status to tender"
        /\ shipments[pc[p].args.shipmentId].status # "QUOTE"
        /\ pc[q].op = "rollback" /\ pc[q].of = "assignDriver"
        /\ pc[q].error = "No accepted tender found for this shipment"
        /\ shipments[pc[q].args.shipmentId].status = "TENDERED"

\* a driver that is inactive, has a status outside {ACTIVE, OFF_DUTY}, an
\* expired licence or an expired medical certificate
Ineligible(driver) ==
    \/ ~driver.isActive
    \/ driver.status \notin {"ACTIVE", "OFF_DUTY"}
    \/ driver.licenseExpired
    \/ driver.medicalExpired

\* C15: an assignDriver called for a driver that is ineligible throws, and a
\* tenderLoad called for a carrier that is not ACTIVE throws; the throwing
\* call writes nothing, and every assignment or tender that is inserted was
\* validated against an eligible driver or an ACTIVE carrier.
C15_NoOfferForIneligibleActor ==
    [][\A p \in Procs :
         /\ (StartsCall(p, "assignDriver") /\ Ineligible(drivers[DriverArg(p)]))
            => ThrowsUnchanged(p)
         /\ (StartsCall(p, "tenderLoad") /\ carriers[CarrierArg(p)].status # "ACTIVE")
            => ThrowsUnchanged(p)
         /\ Commits(p, "assignDriver")
            => /\ ~Ineligible(pc[p].driver)
               /\ Len(dispatchAssignments') = Len(dispatchAssignments) + 1
         /\ Len(dispatchAssignments') > Len(dispatchAssignments)
            => \E q \in Procs : Commits(q, "assignDriver")
         /\ Len(loadTenders') > Len(loadTenders)
            => \E q \in Procs : /\ Commits(q, "tenderLoad")
                                /\ carriers[pc[q].carrierId].status = "ACTIVE"]_vars

\* C15 witness: an assignDriver has thrown for a driver whose licence or
\* medical certificate is expired while a tenderLoad has thrown for an
\* INACTIVE carrier, and no assignment and no further tender exists.
C15_Witness ==
    \E p \in Procs, q \in Procs :
        /\ pc[p].op = "rollback" /\ pc[p].of = "assignDriver"
        /\ pc[p].error = "Driver is not available for dispatch"
        /\ \/ drivers[pc[p].args.driverId].licenseExpired
           \/ drivers[pc[p].args.driverId].medicalExpired
        /\ pc[q].op = "rollback" /\ pc[q].of = "tenderLoad"
        /\ pc[q].error = "Carrier must be ACTIVE to receive tenders"
        /\ carriers[pc[q].args.carrierId].status = "INACTIVE"
        /\ dispatchAssignments = << >>
        /\ Len(loadTenders) = 1

\* C16: no two dispatch assignments in DISPATCHED or CONFIRMED status share a
\* (shipmentId, driverId) pair.
C16_OneActiveAssignmentPerPair ==
    \A a \in AssignmentIds, b \in AssignmentIds :
        (/\ a # b
         /\ dispatchAssignments[a].status \in {"DISPATCHED", "CONFIRMED"}
         /\ dispatchAssignments[b].status \in {"DISPATCHED", "CONFIRMED"}
         /\ dispatchAssignments[a].shipmentId = dispatchAssignments[b].shipmentId)
        => dispatchAssignments[a].driverId # dispatchAssignments[b].driverId

\* the assignment a starting processDriverResponse is for
AssignmentArg(p) ==
    IF pc'[p].op = "rollback" THEN pc'[p].args.assignmentId ELSE pc'[p].assignmentId

WebhookReturned(p) == pc[p].op = "webhookReturn" /\ pc'[p] = Idle

\* the assignments of driver d that are DISPATCHED
DispatchedTo(d) ==
    {a \in AssignmentIds : /\ dispatchAssignments[a].driverId = d
                           /\ dispatchAssignments[a].status = "DISPATCHED"}

\* C17: when a webhook whose From is driver d's phone number and whose body
\* is an accept reply has been handled, and d has exactly one DISPATCHED
\* assignment, that assignment is CONFIRMED and its shipment has the
\* confirmed status.
C17_WebhookAcceptIsApplied ==
    [][\A p \in Procs, d \in Drivers :
         (/\ WebhookReturned(p)
          /\ pc[p].payload.From = phoneNumber(d)
          /\ pc[p].parsed.response = "1"
          /\ Cardinality(DispatchedTo(d)) = 1)
         => \A a \in DispatchedTo(d) :
               /\ dispatchAssignments'[a].status = "CONFIRMED"
               /\ shipments'[dispatchAssignments[a].shipmentId].status
                     = ConfirmedShipmentStatus]_vars

\* the keyword families of the classification
AcceptFamily ==
    {<<"c", "o", "n", "f", "i", "r", "m">>,
     <<"a", "c", "c", "e", "p", "t">>,
     <<"y", "e", "s">>,
     <<"o", "k">>,
     <<"g", "o", "t", " ", "i", "t">>,
     <<"o", "n", " ", "m", "y", " ", "w", "a", "y">>}
RejectFamily ==
    {<<"r", "e", "j", "e", "c", "t">>,
     <<"d", "e", "c", "l", "i", "n", "e">>,
     <<"n", "o">>,
     <<"c", "a", "n", "'", "t">>,
     <<"b", "u", "s", "y">>,
     <<"n", "o", "t", " ", "a", "v", "a", "i", "l", "a", "b", "l", "e">>}

\* ACCEPT for "1" or any accept keyword, REJECT for "2" or reject keywords
\* only, else unrecognized; case and surrounding blanks do not count
Classification(raw) ==
    LET body == toLowerCase(trim(raw))
    IN IF body = <<"1">> \/ \E w \in AcceptFamily : includes(body, w) THEN "1"
       ELSE IF body = <<"2">> \/ \E w \in RejectFamily : includes(body, w) THEN "2"
       ELSE NULL

\* C19: what the handler has parsed from a body is its classification:
\* ACCEPT ('1') for "1" or a body with an accept keyword, REJECT ('2') for
\* "2" or a body with reject keywords only, nothing for any other body.
C19_TextClassification ==
    \A p \in Procs :
        (pc[p].op = "webhookReturn" /\ "Body" \in DOMAIN pc[p].payload)
        => pc[p].parsed.response = Classification(pc[p].payload.Body)

\* a step in which process p receives an inbound SMS webhook
StartsWebhook(p) == pc[p] = Idle /\ pc'[p].op = "webhookReturn"

C21_AllOrNothing ==
    [][\A p \in Procs :
         /\ pc'[p].op = "rollback" /\ pc[p].op # "rollback"
            => UNCHANGED <<loadTenders, dispatchAssignments, shipments, drivers>>
         /\ pc[p].op = "rollback" /\ pc'[p] = Idle
            => UNCHANGED <<loadTenders, dispatchAssignments, shipments, drivers>>
         /\ \/ UNCHANGED <<loadTenders, dispatchAssignments, shipments, drivers>>
            \/ \E q \in Procs : pc[q].op \in TransactionalOps /\ pc'[q] = Idle
            \/ UNCHANGED <<dispatchAssignments, shipments, drivers, pc>>]_vars

\* C21 witness: an acceptTender and an assignDriver have failed after their
\* first write; the tender is still OFFERED, its shipment is not BOOKED and
\* there is no assignment.
C21_Witness ==
    \E p \in Procs, q \in Procs :
        /\ pc[p].op = "rollback" /\ pc[p].of = "acceptTender"
        /\ pc[p].error = "QueryFailedError"
        /\ loadTenders[pc[p].args.tenderId].status = "OFFERED"
        /\ shipments[loadTenders[pc[p].args.tenderId].shipmentId].status = "TENDERED"
        /\ pc[q].op = "rollback" /\ pc[q].of = "assignDriver"
        /\ pc[q].error = "QueryFailedError"
        /\ dispatchAssignments = << >>
        /\ drivers[pc[q].args.driverId].status = "ACTIVE"

\* C22: when the dispatch SMS fails after assignDriver's commit, no
\* assignment, shipment or driver changes (the committed assignment stays),
\* and the result the operation returns is successful and carries the
\* failed SMS result.
C22_SmsFailureKeepsCommit ==
    [][\A p \in Procs :
         /\ (/\ pc[p].op = "sendDispatchSms"
             /\ pc'[p].op = "assignDriverReturn"
             /\ ~pc'[p].response.smsResult.success)
            => /\ pc'[p].response.success
               /\ UNCHANGED <<dispatchAssignments, shipments, drivers>>
               /\ pc[p].assignmentId \in AssignmentIds
         /\ (pc[p].op = "assignDriverReturn" /\ pc'[p] = Idle)
            => UNCHANGED <<dispatchAssignments, shipments, drivers>>]_vars

\* C22 witness: assignDriver is returning a successful result with a failed
\* SMS result while its assignment is DISPATCHED, its driver ON_LOAD and the
\* shipment carries the driver.
C22_Witness ==
    \E p \in Procs :
        /\ pc[p].op = "assignDriverReturn"
        /\ pc[p].response.success
        /\ ~pc[p].response.smsResult.success
        /\ dispatchAssignments[pc[p].assignmentId].status = "DISPATCHED"
        /\ dispatchAssignments[pc[p].assignmentId].driverId = pc[p].driverId
        /\ drivers[pc[p].driverId].status = "ON_LOAD"
        /\ shipments[pc[p].shipmentId].assignedDriverId = pc[p].driverId

\* sequence a is a prefix of sequence b
IsPrefix(a, b) == Len(a) <= Len(b) /\ SubSeq(b, 1, Len(a)) = a

\* C23: in every step the auditTrail of every tender keeps what it had as a
\* prefix and gains exactly one entry if the tender's status changes in the
\* step, none otherwise.
C23_AuditTrailAppendOnly ==
    [][\A t \in TenderIds :
         /\ IsPrefix(loadTenders[t].auditTrail, loadTenders'[t].auditTrail)
         /\ Len(loadTenders'[t].auditTrail) =
               Len(loadTenders[t].auditTrail)
                 + (IF loadTenders'[t].status # loadTenders[t].status THEN 1 ELSE 0)]_vars

\* C24: a cancelTender that commits was called by a user of the tenant that
\* owns the tender's shipment, and the list query by shipment returns to a
\* user only tenders whose shipment belongs to the user's tenant.
C24_TenantIsolation ==
    [][\A p \in Procs :
         /\ Commits(p, "cancelTender")
            => ShipmentTenant(pc[p].tender.shipmentId) = pc[p].tenant
         /\ (pc[p] = Idle /\ pc'[p].op = "getTendersReturn")
            => \A t \in pc'[p].tenders :
                  ShipmentTenant(loadTenders[t].shipmentId) = pc'[p].tenant]_vars

\* C25: whatever has become of the carrier or the driver, an OFFERED tender
\* that is not past its expiry passes the checks of acceptTender and
\* rejectTender, a DISPATCHED assignment passes the checks of
\* processDriverResponse, and the commit of the response writes the tender
\* ACCEPTED (shipment BOOKED) or REJECTED, the assignment CONFIRMED or
\* REJECTED.
C25_EligibilityOnlyAtCreation ==
    [][/\ \A t \in TenderIds :
            (loadTenders[t].status = "OFFERED" /\ ~loadTenders[t].expired)
            => /\ AcceptTenderValid(t, loadTenders[t].carrierId)
               /\ RejectTenderValid(t, loadTenders[t].carrierId)
       /\ \A a \in AssignmentIds :
            dispatchAssignments[a].status = "DISPATCHED"
            => ProcessDriverResponseValid(dispatchAssignments[a].driverId, a)
       /\ \A p \in Procs :
            /\ Commits(p, "acceptTender")
               => /\ loadTenders'[pc[p].tenderId].status = "ACCEPTED"
                  /\ shipments'[pc[p].tender.shipmentId].status = "BOOKED"
            /\ Commits(p, "rejectTender")
               => loadTenders'[pc[p].tenderId].status = "REJECTED"
            /\ Commits(p, "processDriverResponse")
               => dispatchAssignments'[pc[p].assignmentId].status
                     = newStatus(pc[p].response)]_vars

\* C25 witness: the tender of s2 is ACCEPTED and s2 BOOKED while its carrier
\* is INACTIVE, and the assignment of d1 is CONFIRMED although d1 was
\* deactivated (ON_LOAD again by the confirmation) and its licence expired.
C25_Witness ==
    /\ loadTenders[2].status = "ACCEPTED"
    /\ shipments["s2"].status = "BOOKED"
    /\ carriers[loadTenders[2].carrierId].status = "INACTIVE"
    /\ dispatchAssignments[1].status = "CONFIRMED"
    /\ ~drivers["d1"].isActive
    /\ drivers["d1"].status = "ON_LOAD"
    /\ drivers["d1"].licenseExpired

\* the ordered rule set over the normalised body: exact "1", else exact "2",
\* else an accept keyword, else a reject keyword, else unrecognized
OrderedRuleSet(raw) ==
    LET body == toLowerCase(trim(raw))
        rules == <<[hit |-> body = <<"1">>, result |-> "1"],
                   [hit |-> body = <<"2">>, result |-> "2"],
                   [hit |-> \E w \in AcceptFamily : includes(body, w), result |-> "1"],
                   [hit |-> \E w \in RejectFamily : includes(body, w), result |-> "2"]>>
        hits == {i \in DOMAIN rules : rules[i].hit}
    IN IF hits = {} THEN NULL
       ELSE rules[CHOOSE i \in hits : \A j \in hits : i <= j].result

\* C26: the response that parseSmsResponse has produced for a body is the
\* result of the first rule of the ordered rule set that matches it; a body
\* with keywords of both families is an ACCEPT ('1').
C26_OrderedRuleSet ==
    \A p \in Procs :
        (pc[p].op = "webhookReturn" /\ "Body" \in DOMAIN pc[p].payload)
        => LET raw == pc[p].payload.Body
               body == toLowerCase(trim(raw))
           IN /\ pc[p].parsed.response = OrderedRuleSet(raw)
              /\ ((\E w \in AcceptFamily : includes(body, w))
                     /\ (\E w \in RejectFamily : includes(body, w)))
                 => pc[p].parsed.response = "1"

\* C27: a committing shipment edit leaves the status of every shipment as it
\* is in the database, so neither the edit itself nor a row it read before
\* an acceptance committed changes a status; a status changes only in the
\* commit of an offer operation.
C27_EditNeverWritesStatus ==
    [][/\ \A p \in Procs :
            Commits(p, "updateShipment")
            => \A s \in Shipments : shipments'[s].status = shipments[s].status
       /\ (\E s \in Shipments : shipments'[s].status # shipments[s].status)
          => \E p \in Procs : Commits(p, "acceptTender")]_vars

\* C28: a shipment whose status is BOOKED has exactly one ACCEPTED tender,
\* and the shipment's carrierId is the carrier of that tender.
C28_BookedHasOneAcceptedTender ==
    \A s \in Shipments :
        shipments[s].status = "BOOKED"
        => \E t \in TendersOf(s) :
              /\ loadTenders[t].status = "ACCEPTED"
              /\ loadTenders[t].carrierId = shipments[s].carrierId
              /\ \A u \in TendersOf(s) : loadTenders[u].status = "ACCEPTED" => u = t

\* C29: no driver has two dispatch assignments in DISPATCHED or CONFIRMED
\* status at the same time.
C29_OneOpenAssignmentPerDriver ==
    \A d \in Drivers :
        Cardinality({a \in AssignmentIds :
                       /\ dispatchAssignments[a].driverId = d
                       /\ dispatchAssignments[a].status \in {"DISPATCHED", "CONFIRMED"}}) <= 1

\* C30: once every call has returned, the completedLoads of a driver (0
\* before the first dispatch) is the number of dispatches the driver has
\* confirmed: one more for each confirmation, none for a rejection.
C30_CompletedLoadsCountConfirmations ==
    (\A p \in Procs : pc[p] = Idle)
    => \A d \in Drivers :
          drivers[d].completedLoads
             = Cardinality({a \in AssignmentIds :
                              /\ dispatchAssignments[a].driverId = d
                              /\ dispatchAssignments[a].status = "CONFIRMED"})

====
